---- MODULE Spec2Model ----
(***************************************************************************)
(* Temporary voice channel lifecycle of the Discord bot                    *)
(* (src/src/handler/mod.rs).                                               *)
(*                                                                         *)
(* The state is the Handler's registry temp_channels (an RwLock around a   *)
(* HashMap ChannelId -> ChannelInfo), the tokio tasks spawned by           *)
(* schedule_channel_deletion, one record per concurrently running          *)
(* voice_state_update invocation (its position between await points) and   *)
(* the platform side the handler talks to: which temporary channels exist  *)
(* and the voice channel each user is connected to (the serenity cache).   *)
(***************************************************************************)
EXTENDS Integers, FiniteSets, Sequences, TLC

\* ---------------------------------------------------------------- bounds
MaxNotifs == 3

\* ------------------------------------------------------------- identities
Users == {1, 2}
NoChannel == 0
CreatorId == 1
CreatorParent == 9
NoParent == 0
NoTask == 0

\* Two invocations of voice_state_update run concurrently.
Slots == {1, 2}
TempIds == (CreatorId + 1)..(CreatorId + MaxNotifs)

VARIABLES
    temp_channels,  \* the registry: function ChannelId -> ChannelInfo
    lock,           \* holder of the registry's write lock (0: free)
    tasks,          \* sequence of spawned deletion tasks, index = JoinHandle
    handlers,       \* one record per voice_state_update invocation slot
    live,           \* temporary channels that exist on the platform
    category,       \* parent category each created channel was given
    voice,          \* cached voice state: the channel each user is in
    made,           \* number of channels the platform has created
    notifs,         \* number of notifications dispatched so far
    returned,       \* what the invocation that returned last had done
    emptied         \* tracked channels last reported left empty, no join since

vars == <<temp_channels, lock, tasks, handlers, live, category, voice, made, notifs,
          returned, emptied>>

\* ------------------------------------------------------------- registry
ChannelInfo(owner, task) == [owner_id |-> owner, delete_task |-> task]

Tracked == DOMAIN temp_channels

OwnedBy(reg, u) == {c \in DOMAIN reg : reg[c].owner_id = u}

user_has_channel(reg, u) == \E c \in DOMAIN reg : reg[c].owner_id = u

\* HashMap iteration order is unspecified: find returns any matching key.
get_user_channel(reg, u) == OwnedBy(reg, u)

RegInsert(reg, c, info) == [k \in (DOMAIN reg) \cup {c} |-> IF k = c THEN info ELSE reg[k]]

RegRemove(reg, c) == [k \in (DOMAIN reg) \ {c} |-> reg[k]]

RegKeepTask(reg, c, t) == reg
RegSetTask(reg, c, t) ==
    [k \in DOMAIN reg |-> IF k = c THEN ChannelInfo(reg[k].owner_id, t) ELSE reg[k]]

\* ---------------------------------------------------------------- tasks
\* st: "sleeping"  in sleep(5 s)
\*     "deleting"  delete request issued, waiting for the answer
\*     "locking"   delete request answered Ok, waiting for the write lock
\*     "done"      ran to completion
\*     "aborted"   cancelled through its JoinHandle before completing
\* del: the task's delete request: "none" while not issued, "issued" while
\*      in flight, then its outcome "ok" or "fail"
\* joined: a join-tracked phase for ch was processed before the request
NewTask(c) == [ch |-> c, st |-> "sleeping", del |-> "none", joined |-> FALSE]

TaskIds == 1..Len(tasks)

TaskLive(t) == t.st \in {"sleeping", "deleting", "locking"}

\* JoinHandle::abort: the task is dropped at its current await point;
\* a finished task is unaffected.
AbortKeep(ts, t) == ts
AbortTask(ts, t) ==
    IF t # NoTask /\ ts[t].st \in {"sleeping", "deleting", "locking"}
    THEN [ts EXCEPT ![t].st = "aborted"]
    ELSE ts

\* ------------------------------------------------------------- platform
\* A delete request for a channel that exists may succeed or fail; for a
\* channel that is gone it fails.
DeleteOutcomes(c) == IF c \in live THEN {TRUE, FALSE} ELSE {FALSE}

\* Deleting a channel disconnects whoever is in it.
Disconnect(v, c) == [u \in Users |-> IF v[u] = c THEN NoChannel ELSE v[u]]

MoveTo(v, u, c) == [w \in Users |-> IF w = u THEN c ELSE v[w]]

Members(c) == {u \in Users : voice[u] = c}

\* -------------------------------------------------------------- handlers
IdleHandler ==
    [pc |-> "idle", user |-> 0, old |-> NoChannel, new |-> NoChannel,
     gate |-> "na", owned |-> {}, existing |-> NoChannel, delX |-> "na",
     newch |-> NoChannel, prov |-> "na", mv |-> "na"]

NewHandlerAlways(u, o, n) ==
    [IdleHandler EXCEPT !.pc = "p1", !.user = u, !.old = o, !.new = n,
                        !.owned = OwnedBy(temp_channels, u)]
NewHandler(u, o, n) ==
    IF n = CreatorId
    THEN [IdleHandler EXCEPT !.pc = "p1", !.user = u, !.old = o, !.new = n,
                             !.owned = OwnedBy(temp_channels, u)]
    ELSE [IdleHandler EXCEPT !.pc = IF o # NoChannel THEN "p2" ELSE "p3",
                             !.old = o, !.new = n]

Free(h) == handlers[h].pc = "idle"

\* Where voice_state_update returned: at a lookup of phase 1 ("denied",
\* "unresolved"), inside phase 2 ("p2") or at its end ("end").
ExitPoint(r) ==
    IF r.gate \in {"denied", "unresolved"} THEN r.gate
    ELSE IF r.pc = "return" THEN "p2"
    ELSE "end"

\* The locals of handle_creator_channel_join go out of scope when it returns.
Phase2(r, pc2) ==
    [IdleHandler EXCEPT !.pc = pc2, !.old = r.old, !.new = r.new]

\* Handler h moves on with locals r; pc "done" is the function running to
\* its end, pc "return" a return statement.
Upd(h, r) ==
    IF r.pc \in {"done", "return"}
    THEN /\ handlers' = [handlers EXCEPT ![h] = IdleHandler]
         /\ returned' = ExitPoint(r)
    ELSE /\ handlers' = [handlers EXCEPT ![h] = r]
         /\ returned' = returned

Init ==
    /\ temp_channels = [c \in {} |-> ChannelInfo(0, NoTask)]
    /\ lock = 0
    /\ tasks = <<>>
    /\ handlers = <<IdleHandler, IdleHandler>>
    /\ live = {}
    /\ category = [c \in {} |-> 0]
    /\ voice = [u \in Users |-> NoChannel]
    /\ made = 0
    /\ notifs = 0
    /\ returned = "none"
    /\ emptied = {}

\* The gateway delivers a voice state update for user u who is now in
\* channel n (NoChannel: disconnected); the cache supplies the old state.
\* Each notification runs as its own concurrent unit of work.
Dispatch(u, n) ==
    /\ notifs < MaxNotifs
    /\ \E h \in Slots :
        /\ Free(h)
        /\ \A g \in Slots : g < h => ~Free(g)
        /\ n \in {NoChannel, CreatorId} \cup live
        /\ ~(n = NoChannel /\ voice[u] = NoChannel)
        /\ handlers' = [handlers EXCEPT ![h] = NewHandler(u, voice[u], n)]
    /\ voice' = MoveTo(voice, u, n)
    /\ notifs' = notifs + 1
    /\ emptied' = LET o == voice[u] IN
                  IF o # n /\ o \in Tracked /\ Members(o) = {u}
                  THEN (emptied \ {n}) \cup {o}
                  ELSE emptied \ {n}
    /\ UNCHANGED <<temp_channels, lock, tasks, live, category, made, returned>>

\* ---------------------------------------------- phase 1: join-creator
\* What the lookups before handle_creator_channel_join can answer: the
\* notification has no guild id, the guild is not cached, the bot's member
\* record cannot be fetched, the bot lacks manage_channels, the notification
\* carries no member; or everything resolves.
GateOutcomes == {"noguildid", "noguild", "nobotmember", "denied", "nomember", "ok"}

\* utils::check_permissions answers false for an uncached guild, a failed
\* member lookup and a missing manage_channels bit alike.
GateClass(out) ==
    IF out = "ok" THEN "ok"
    ELSE IF out \in {"noguild", "nobotmember", "denied"} THEN "denied"
    ELSE "unresolved"

GateNextIgnored(out) == "has"
GateNext(out) == IF out = "ok" THEN "has" ELSE "return"

JoinCreator(h) ==
    /\ handlers[h].pc = "p1"
    /\ \E out \in GateOutcomes :
                Upd(h, [handlers[h] EXCEPT !.gate = GateClass(out), !.pc = GateNext(out)])
    /\ UNCHANGED <<temp_channels, lock, tasks, live, category, voice, made, notifs, emptied>>

\* self.user_has_channel(member.user.id): one read-lock acquisition.
UserHasChannel(h) ==
    /\ handlers[h].pc = "has"
    /\ lock = 0
    /\ Upd(h, [handlers[h] EXCEPT !.pc =
            IF user_has_channel(temp_channels, handlers[h].user) THEN "get" ELSE "create"])
    /\ UNCHANGED <<temp_channels, lock, tasks, live, category, voice, made, notifs, emptied>>

\* self.get_user_channel(member.user.id): a second read-lock acquisition.
GetUserChannel(h) ==
    /\ handlers[h].pc = "get"
    /\ lock = 0
    /\ LET found == get_user_channel(temp_channels, handlers[h].user) IN
       IF found = {}
       THEN Upd(h, [handlers[h] EXCEPT !.pc = "create"])
       ELSE \E c \in found :
                Upd(h, [handlers[h] EXCEPT !.existing = c, !.pc = "del"])
    /\ UNCHANGED <<temp_channels, lock, tasks, live, category, voice, made, notifs, emptied>>

\* existing_channel.delete(&ctx.http).await
DeleteExisting(h) ==
    /\ handlers[h].pc = "del"
    /\ \E ok \in DeleteOutcomes(handlers[h].existing) :
        IF ok
        THEN /\ live' = live \ {handlers[h].existing}
             /\ voice' = Disconnect(voice, handlers[h].existing)
             /\ Upd(h, [handlers[h] EXCEPT !.delX = "ok", !.pc = "rm"])
        ELSE /\ UNCHANGED <<live, voice>>
             /\ Upd(h, [handlers[h] EXCEPT !.delX = "err", !.pc = "create"])
    /\ UNCHANGED <<temp_channels, lock, tasks, category, made, notifs, emptied>>

\* temp_channels.write().await; remove(&existing_channel)
RemoveExisting(h) ==
    /\ handlers[h].pc = "rm"
    /\ lock = 0
    /\ temp_channels' = RegRemove(temp_channels, handlers[h].existing)
    /\ Upd(h, [handlers[h] EXCEPT !.pc = "create"])
    /\ UNCHANGED <<lock, tasks, live, category, voice, made, notifs, emptied>>

\* create_temp_channel: after the display name lookup (which changes
\* nothing), guild_id.create_channel(...).await? creates the channel and
\* waiting_room_id.create_permission(...).await? then grants the owner
\* MOVE_MEMBERS on the waiting room; either `?` returns the error.
ProvisionOutcomes == {"createErr", "grantErr", "ok"}

ProvisionNext(out) == IF out = "ok" THEN "ins" ELSE "p2"

\* parent_id: the creator channel's category as the cache has it; None when
\* the channel is not cached or has no category. The handler reads it
\* before handle_creator_channel_join and first uses it in the request.
ParentOutcomes == {NoParent, CreatorParent}

\* guild_id.create_channel(...).await answered
CreateChannel(h) ==
    /\ handlers[h].pc = "create"
    /\ \E out \in ProvisionOutcomes \ {"grantErr"}, parent_id \in ParentOutcomes :
        IF out = "createErr"
        THEN /\ UNCHANGED <<made, live, category>>
             /\ Upd(h, [handlers[h] EXCEPT !.prov = out, !.pc = ProvisionNext(out)])
        ELSE LET id == CreatorId + made + 1 IN
             /\ made' = made + 1
             /\ live' = live \cup {id}
             /\ category' = RegInsert(category, id, parent_id)
             /\ Upd(h, [handlers[h] EXCEPT !.newch = id, !.pc = "grant"])
    /\ UNCHANGED <<temp_channels, lock, tasks, voice, notifs, emptied>>

\* waiting_room_id.create_permission(...).await answered
CreatePermission(h) ==
    /\ handlers[h].pc = "grant"
    /\ \E out \in ProvisionOutcomes \ {"createErr"} :
        Upd(h, [handlers[h] EXCEPT !.prov = out, !.pc = ProvisionNext(out)])
    /\ UNCHANGED <<temp_channels, lock, tasks, live, category, voice, made, notifs,
                   emptied>>

\* temp_channels.write().await; insert(guild_channel.id, ChannelInfo {..})
InsertRecord(h) ==
    /\ handlers[h].pc = "ins"
    /\ lock = 0
    /\ temp_channels' = RegInsert(temp_channels, handlers[h].newch,
                                  ChannelInfo(handlers[h].user, NoTask))
    /\ Upd(h, [handlers[h] EXCEPT !.pc = "move"])
    /\ UNCHANGED <<lock, tasks, live, category, voice, made, notifs, emptied>>

\* member.move_to_voice_channel(&ctx.http, guild_channel.id).await
\* The request can succeed only for a user connected to voice and a channel
\* that exists. A user still in the creator channel is then in the new
\* channel; for a user who has moved elsewhere the gateway reports the
\* relocation with a later notification (Dispatch).
MoveOutcomes(u, c) ==
    IF voice[u] # NoChannel /\ c \in live THEN {TRUE, FALSE} ELSE {FALSE}

\* On Err the handler logs the error and does nothing else.
MoveRollback(reg, c) == RegRemove(reg, c)
OnMoveError(reg, c) == reg

MoveOwner(h) ==
    /\ handlers[h].pc = "move"
    /\ \E ok \in MoveOutcomes(handlers[h].user, handlers[h].newch) :
        /\ Upd(h, [handlers[h] EXCEPT !.pc = "p2", !.mv = IF ok THEN "ok" ELSE "err"])
        /\ voice' = IF ok /\ voice[handlers[h].user] = CreatorId
                     THEN MoveTo(voice, handlers[h].user, handlers[h].newch)
                     ELSE voice
        /\ temp_channels' = IF ok THEN temp_channels
                             ELSE OnMoveError(temp_channels, handlers[h].newch)
    /\ UNCHANGED <<lock, tasks, live, category, made, notifs, emptied>>

\* ---------------------------------------------- phase 2: leave-tracked
\* task.abort() on the stored handle, then schedule_channel_deletion
RescheduleNoCancel(ts, old_task, c) == Append(ts, NewTask(c))
RescheduleUnlessStored(ts, old_task, c) ==
    IF old_task = NoTask THEN Append(ts, NewTask(c))
    ELSE Append(ts, [NewTask(c) EXCEPT !.st = "aborted"])
Reschedule(ts, old_task, c) == Append(AbortTask(ts, old_task), NewTask(c))

\* What the cache answers for a tracked previous channel: the guild is not
\* cached, guild.channels has no entry for the channel, the entry is not a
\* guild channel, or the entry is found. The cache follows the platform
\* with a delay: it may still list a deleted channel and may not yet list
\* an existing one.
CacheOutcomes == {"noguild", "nochannel", "notguild", "found"}

\* temp_channels.write().await and the lookups up to gc.members(&ctx).await
LeaveTrackedEnter(h) ==
    /\ handlers[h].pc = "p2"
    /\ LET o == handlers[h].old IN
       IF o = NoChannel
       THEN /\ Upd(h, Phase2(handlers[h], "p3"))
            /\ UNCHANGED <<lock, emptied>>
       ELSE /\ lock = 0
            /\ IF o \notin Tracked
               THEN /\ Upd(h, Phase2(handlers[h], "p3"))
                    /\ UNCHANGED <<lock, emptied>>
               ELSE \E res \in CacheOutcomes :
                      CASE res = "noguild" ->
                              /\ Upd(h, Phase2(handlers[h], "return"))
                              /\ emptied' = emptied \ {o}
                              /\ UNCHANGED lock
                        [] res = "nochannel" ->
                              /\ Upd(h, Phase2(handlers[h], "return"))
                              /\ emptied' = IF o \in live THEN emptied \ {o} ELSE emptied
                              /\ UNCHANGED lock
                        [] res = "notguild" ->
                              /\ Upd(h, Phase2(handlers[h], "p3"))
                              /\ emptied' = emptied \ {o}
                              /\ UNCHANGED lock
                        [] res = "found" ->
                              /\ Upd(h, Phase2(handlers[h], "p2body"))
                              /\ lock' = h
                              /\ UNCHANGED emptied
    /\ UNCHANGED <<temp_channels, tasks, live, category, voice, made, notifs>>

\* The write guard is dropped at the end of the block that took it.
KeepGuard(h) == h
ReleaseGuard(h) == 0

\* gc.members(&ctx).await answered; abort, schedule, store; lock released
LeaveTrackedBody(h) ==
    /\ handlers[h].pc = "p2body"
    /\ lock = h
    /\ LET o == handlers[h].old IN
       \E membersOk \in BOOLEAN :
        /\ IF membersOk /\ Members(o) = {}
           THEN /\ tasks' = Reschedule(tasks, temp_channels[o].delete_task, o)
                /\ temp_channels' = RegSetTask(temp_channels, o, Len(tasks) + 1)
           ELSE UNCHANGED <<tasks, temp_channels>>
        /\ emptied' = IF membersOk THEN emptied ELSE emptied \ {o}
    /\ lock' = ReleaseGuard(h)
    /\ Upd(h, [handlers[h] EXCEPT !.pc = IF handlers[h].new = NoChannel THEN "done" ELSE "p3"])
    /\ UNCHANGED <<live, category, voice, made, notifs>>

\* ----------------------------------------------- phase 3: join-tracked
\* Bookkeeping for the properties: the countdowns of channel c that have not
\* yet issued their delete request have now seen a join.
RECURSIVE MarkJoined(_, _)
MarkJoined(ts, c) ==
    IF ts = <<>> THEN <<>>
    ELSE LET t == ts[Len(ts)] IN
         Append(MarkJoined(SubSeq(ts, 1, Len(ts) - 1), c),
                IF t.ch = c /\ t.st = "sleeping" THEN [t EXCEPT !.joined = TRUE] ELSE t)

JoinTracked(h) ==
    /\ handlers[h].pc = "p3"
    /\ LET n == handlers[h].new IN
       IF n = NoChannel
       THEN /\ Upd(h, [handlers[h] EXCEPT !.pc = "done"])
            /\ UNCHANGED <<temp_channels, tasks>>
       ELSE /\ lock = 0
            /\ Upd(h, [handlers[h] EXCEPT !.pc = "done"])
            /\ IF n \in Tracked
               THEN /\ tasks' = AbortTask(MarkJoined(tasks, n), temp_channels[n].delete_task)
                    /\ temp_channels' = RegSetTask(temp_channels, n, NoTask)
               ELSE UNCHANGED <<temp_channels, tasks>>
    /\ UNCHANGED <<lock, live, category, voice, made, notifs, emptied>>

\* ------------------------------------------------- the deletion task
\* sleep(5 s) elapsed: the task issues channel_id.delete(&ctx.http) and
\* waits for the answer
TimerFire(t) ==
    /\ t \in TaskIds
    /\ tasks[t].st = "sleeping"
    /\ tasks' = [tasks EXCEPT ![t].del = "issued", ![t].st = "deleting"]
    /\ UNCHANGED <<temp_channels, lock, handlers, live, category, voice, made, notifs,
                   returned, emptied>>

\* channel_id.delete(&ctx.http).await answered
DeleteAnswered(t) ==
    /\ t \in TaskIds
    /\ tasks[t].st = "deleting"
    /\ \E ok \in DeleteOutcomes(tasks[t].ch) :
        IF ok
        THEN /\ live' = live \ {tasks[t].ch}
             /\ voice' = Disconnect(voice, tasks[t].ch)
             /\ tasks' = [tasks EXCEPT ![t].del = "ok", ![t].st = "locking"]
        ELSE /\ UNCHANGED <<live, voice>>
             /\ tasks' = [tasks EXCEPT ![t].del = "fail", ![t].st = "done"]
    /\ UNCHANGED <<temp_channels, lock, handlers, category, made, notifs, returned, emptied>>

\* The delete request of a task that was aborted while waiting for the
\* answer reaches the platform or is lost; nobody receives the answer.
RequestLands(t) ==
    /\ t \in TaskIds
    /\ tasks[t].st = "aborted" /\ tasks[t].del = "issued"
    /\ \E ok \in DeleteOutcomes(tasks[t].ch) :
        IF ok
        THEN /\ live' = live \ {tasks[t].ch}
             /\ voice' = Disconnect(voice, tasks[t].ch)
             /\ tasks' = [tasks EXCEPT ![t].del = "ok"]
        ELSE /\ UNCHANGED <<live, voice>>
             /\ tasks' = [tasks EXCEPT ![t].del = "fail"]
    /\ UNCHANGED <<temp_channels, lock, handlers, category, made, notifs, returned, emptied>>

\* temp_channels.write().await; channels.remove(&channel_id)
TaskRemove(t) ==
    /\ t \in TaskIds
    /\ tasks[t].st = "locking"
    /\ lock = 0
    /\ temp_channels' = RegRemove(temp_channels, tasks[t].ch)
    /\ tasks' = [tasks EXCEPT ![t].st = "done"]
    /\ UNCHANGED <<lock, handlers, live, category, voice, made, notifs, returned, emptied>>

Next ==
    \/ \E u \in Users, n \in {NoChannel, CreatorId} \cup TempIds : Dispatch(u, n)
    \/ \E h \in Slots : JoinCreator(h)
    \/ \E h \in Slots : UserHasChannel(h)
    \/ \E h \in Slots : GetUserChannel(h)
    \/ \E h \in Slots : DeleteExisting(h)
    \/ \E h \in Slots : RemoveExisting(h)
    \/ \E h \in Slots : CreateChannel(h)
    \/ \E h \in Slots : CreatePermission(h)
    \/ \E h \in Slots : InsertRecord(h)
    \/ \E h \in Slots : MoveOwner(h)
    \/ \E h \in Slots : LeaveTrackedEnter(h)
    \/ \E h \in Slots : LeaveTrackedBody(h)
    \/ \E h \in Slots : JoinTracked(h)
    \/ \E t \in 1..MaxNotifs : TimerFire(t)
    \/ \E t \in 1..MaxNotifs : DeleteAnswered(t)
    \/ \E t \in 1..MaxNotifs : RequestLands(t)
    \/ \E t \in 1..MaxNotifs : TaskRemove(t)

Spec == Init /\ [][Next]_vars

\* The runtime runs every unit of work that can make a step: a handler that
\* is not waiting for the lock, a task whose sleep has elapsed, and one of
\* the waiters when the lock is free. The gateway owes no notification.
Progress ==
    \/ \E h \in Slots :
        \/ JoinCreator(h) \/ UserHasChannel(h) \/ GetUserChannel(h)
        \/ DeleteExisting(h) \/ RemoveExisting(h) \/ CreateChannel(h)
        \/ CreatePermission(h) \/ InsertRecord(h) \/ MoveOwner(h)
        \/ LeaveTrackedEnter(h) \/ LeaveTrackedBody(h) \/ JoinTracked(h)
    \/ \E t \in 1..MaxNotifs :
        TimerFire(t) \/ DeleteAnswered(t) \/ RequestLands(t) \/ TaskRemove(t)

FairSpec == Spec /\ WF_vars(Progress)

TypeOK ==
    /\ Tracked \subseteq TempIds
    /\ lock \in {0} \cup Slots
    /\ Len(tasks) <= MaxNotifs
    /\ live \subseteq TempIds
    /\ made <= MaxNotifs
    /\ notifs <= MaxNotifs

\* ------------------------------------------------------------ properties
TasksOf(c) == {t \in TaskIds : tasks[t].ch = c}

LiveTasksOf(c) == {t \in TasksOf(c) : TaskLive(tasks[t])}

\* Nothing is running: every invocation has returned, every task has ended
\* and no delete request is in flight.
Quiescent ==
    /\ \A h \in Slots : Free(h)
    /\ \A t \in TaskIds : ~TaskLive(tasks[t]) /\ tasks[t].del # "issued"

\* C1: the registry never holds two records with the same owner.
SingleOwnership ==
    \A u \in Users : Cardinality(OwnedBy(temp_channels, u)) <= 1

\* Every countdown of channel c was cancelled before it issued its request.
Cycled(c) ==
    /\ TasksOf(c) # {}
    /\ \A t \in TasksOf(c) : tasks[t].st = "aborted" /\ tasks[t].del = "none"

\* C2: a countdown that was still waiting when a join-tracked phase for its
\* channel was processed never issues its delete request; and a channel all
\* of whose countdowns were cancelled before expiring, the last one by a
\* join, is still tracked with an empty delete_task while it exists.
GracePeriodSafety ==
    /\ \A t \in TaskIds : tasks[t].joined => tasks[t].del = "none"
    /\ \A c \in TempIds :
        Cycled(c) /\ c \in live =>
            /\ c \in Tracked
            /\ temp_channels[c].delete_task = NoTask
            /\ \E t \in TasksOf(c) : tasks[t].joined

GracePeriodWitness ==
    \E c \in live : Cycled(c) /\ \E t \in TasksOf(c) : tasks[t].joined

\* C3: once everything has come to rest, a tracked channel that a
\* notification reported left empty (no join notification since, no lookup
\* or delete request of its countdown failed) is deleted and untracked.
EventualDeletion ==
    \A c \in emptied :
        (Quiescent /\ \A t \in TasksOf(c) : tasks[t].del # "fail")
            => c \notin live /\ c \notin Tracked

\* C4: at most one countdown per channel is started and neither cancelled
\* nor completed.
OneLiveCountdown ==
    \A c \in TempIds : Cardinality(LiveTasksOf(c)) <= 1

OneLiveCountdownWitness ==
    \E c \in TempIds : \E t1, t2 \in TasksOf(c) :
        /\ t1 < t2
        /\ tasks[t1].st = "aborted" /\ ~tasks[t1].joined
        /\ tasks[t2].st = "sleeping"
        /\ temp_channels[c].delete_task = t2

\* C5: when a countdown task ends after its delete request succeeded, the
\* channel's record is gone from the registry; when it ends after the
\* request failed, the record is still there with the same owner.
RegistryConsistency ==
    [][\A t \in TaskIds :
        (TaskLive(tasks[t]) /\ ~TaskLive(tasks'[t])) =>
            /\ tasks'[t].del = "ok" => tasks[t].ch \notin DOMAIN temp_channels'
            /\ tasks'[t].del = "fail" =>
                /\ tasks[t].ch \in DOMAIN temp_channels'
                /\ tasks[t].ch \in Tracked
                /\ temp_channels'[tasks[t].ch].owner_id = temp_channels[tasks[t].ch].owner_id
      ]_vars

\* C6: an invocation whose permission gate denied never reaches the steps
\* of handle_creator_channel_join, and the step in which the gate denies
\* changes neither the registry nor the channels on the platform nor the
\* tasks.
PermissionShortCircuit ==
    /\ [](\A h \in Slots : handlers[h].gate = "denied" => handlers[h].pc = "idle")
    /\ [][(\E h \in Slots : handlers[h].pc = "p1" /\ handlers'[h].pc = "idle")
            => UNCHANGED <<temp_channels, live, made, tasks>>]_vars

PermissionShortCircuitWitness ==
    /\ returned = "denied"
    /\ Tracked # {}
    /\ notifs >= 2

\* The relocation request of handler h is answered Ok in this step: the
\* owner, still in the creator channel, is now in the new channel.
Relocated(h) ==
    /\ handlers[h].pc = "move" /\ handlers'[h].pc = "p2"
    /\ voice[handlers[h].user] = CreatorId
    /\ voice'[handlers[h].user] = handlers[h].newch

\* C7: when a join-creator phase ends with the owner relocated, for a user
\* who owned no tracked channel at the notification and for whom no
\* replacement was attempted, the new channel exists under the creator
\* channel's category and is the one record of that user, with an empty
\* delete_task.
FirstCreation ==
    [][\A h \in Slots :
        (/\ Relocated(h)
         /\ handlers[h].owned = {} /\ handlers[h].existing = NoChannel) =>
            LET y == handlers[h].newch
                u == handlers[h].user IN
            /\ y \in live'
            /\ category'[y] = CreatorParent
            /\ OwnedBy(temp_channels', u) = {y}
            /\ temp_channels'[y].delete_task = NoTask
      ]_vars

\* C8: when a join-creator phase ends with the owner relocated, for a user
\* who owned channel X at the notification and whose delete request for X
\* succeeded, X is gone from the platform and the registry and the one
\* record of the user is the new channel Y # X with an empty delete_task;
\* and X was gone from both when the create request for Y was made.
Replacement ==
    [][\A h \in Slots :
        LET x == handlers[h].existing
            y == handlers[h].newch
            u == handlers[h].user IN
        /\ (/\ Relocated(h)
            /\ handlers[h].owned = {x}
            /\ handlers[h].delX = "ok") =>
                /\ x \notin live' /\ x \notin DOMAIN temp_channels'
                /\ y # x
                /\ OwnedBy(temp_channels', u) = {y}
                /\ temp_channels'[y].delete_task = NoTask
        /\ (/\ handlers[h].pc = "create" /\ handlers'[h].pc = "grant"
            /\ handlers[h].owned = {x}
            /\ handlers[h].delX = "ok") =>
                x \notin live /\ x \notin Tracked
      ]_vars

\* C9: every channel on the platform that phase 1 created has a record,
\* unless its creating invocation is still between the create request and
\* the insert; and an invocation whose provisioning reported an error left
\* no new channel on the platform and no record.
CreatedIffTracked ==
    /\ \A c \in live :
        \/ c \in Tracked
        \/ \E h \in Slots : handlers[h].newch = c /\ handlers[h].pc \in {"grant", "ins"}
    /\ \A h \in Slots :
        handlers[h].prov \in {"createErr", "grantErr"} =>
            handlers[h].newch \notin live \cup Tracked

\* C10: an invocation whose previous channel is tracked and which is in the
\* lookups of its join-creator phase (group, bot member, permissions,
\* member) goes on to handle_creator_channel_join or to the leave-tracked
\* phase; it never returns from there, whatever the lookups answer.
AllPhasesRun ==
    [][\A h \in Slots :
        (handlers[h].pc = "p1" /\ handlers[h].old \in Tracked)
            => handlers'[h].pc \in {"p1", "has", "p2"}]_vars

\* C11: every countdown task that is started and neither cancelled nor
\* completed targets a channel that has a record, and is the task that
\* record's delete_task refers to.
NoTaskOutlivesRecord ==
    \A t \in TaskIds :
        TaskLive(tasks[t]) =>
            /\ tasks[t].ch \in Tracked
            /\ temp_channels[tasks[t].ch].delete_task = t

\* C12: while the registry lock is free, a record's delete_task is occupied
\* exactly when a countdown of its channel is started and neither cancelled
\* nor finished.
PendingDeletionAccuracy ==
    lock = 0 =>
        \A c \in Tracked :
            (temp_channels[c].delete_task # NoTask) <=> (LiveTasksOf(c) # {})

\* C13: a countdown task whose timer has expired and whose delete request
\* succeeded is not interrupted by a cancellation: it stays where it is until
\* it removes the record; and a task that completed or was cancelled is
\* never changed again.
CancelAfterFireNoOp ==
    [][\A t \in TaskIds :
        /\ tasks[t].st = "deleting" =>
            \/ tasks'[t] = tasks[t]
            \/ tasks'[t].st \in {"locking", "done"}
        /\ tasks[t].st = "locking" =>
            \/ tasks'[t] = tasks[t]
            \/ /\ tasks'[t].st = "done"
               /\ tasks[t].ch \notin DOMAIN temp_channels'
        /\ tasks[t].st \in {"done", "aborted"} => tasks'[t] = tasks[t]
      ]_vars

\* C14: an invocation in its leave-tracked phase whose previous channel is
\* tracked and whose new channel is some channel does not return before its
\* join-tracked phase; when it leaves the phase without having resolved the
\* previous channel, it is in the join-tracked phase.
PhaseIsolation ==
    [][\A h \in Slots :
        (/\ handlers[h].pc = "p2"
         /\ handlers[h].old \in Tracked
         /\ handlers[h].new # NoChannel
         /\ handlers'[h] # handlers[h])
            => handlers'[h].pc \in {"p2body", "p3"}]_vars

\* C15: between an invocation's check of the registry and the mutation that
\* depends on it, nobody else changes the registry: from the leave-tracked
\* lookup to the store of the new handle, and from user_has_channel to the
\* insert of the new record.
ReadModifyWriteAtomic ==
    [][\A h \in Slots :
        (/\ handlers[h].pc \in {"p2body", "get", "del", "rm", "create", "ins"}
         /\ handlers'[h] = handlers[h])
            => temp_channels' = temp_channels]_vars

\* C16: when the leave-tracked phase starts a countdown for a channel, every
\* countdown of that channel still waiting for its timer is cancelled
\* without having issued a delete request, a cancelled countdown never
\* changes again, and the record's delete_task refers to the countdown just
\* started, which has its whole sleep ahead.
GraceRestart ==
    [][/\ \A h \in Slots :
            (handlers[h].pc = "p2body" /\ Len(tasks') = Len(tasks) + 1) =>
                LET o == handlers[h].old IN
                /\ \A t \in TasksOf(o) :
                    tasks[t].st = "sleeping" =>
                        tasks'[t].st = "aborted" /\ tasks'[t].del = "none"
                /\ temp_channels'[o].delete_task = Len(tasks')
                /\ tasks'[Len(tasks')].ch = o
                /\ tasks'[Len(tasks')].st = "sleeping"
                /\ tasks'[Len(tasks')].del = "none"
       /\ \A t \in TaskIds :
            (tasks[t].st = "aborted" /\ tasks[t].del = "none") => tasks'[t] = tasks[t]
      ]_vars

GraceRestartWitness ==
    \E c \in live \cap Tracked : \E t \in TasksOf(c) :
        /\ tasks[t].st = "aborted" /\ tasks[t].del = "none" /\ ~tasks[t].joined
        /\ t + 1 \in TasksOf(c)
        /\ tasks[t + 1].st = "sleeping" /\ tasks[t + 1].del = "none"
        /\ temp_channels[c].delete_task = t + 1
        /\ Members(c) = {}

\* C17: the step in which the relocation request is answered Err changes
\* neither the channels on the platform nor any record nor any task: the
\* new channel is not deleted and its record stays as it was inserted.
NoRollback ==
    [][\A h \in Slots :
        (/\ handlers[h].pc = "move"
         /\ handlers'[h].pc = "p2" /\ handlers'[h].mv = "err") =>
            /\ live' = live
            /\ temp_channels' = temp_channels
            /\ tasks' = tasks
      ]_vars

NoRollbackWitness ==
    \E h \in Slots :
        /\ handlers[h].pc = "p2" /\ handlers[h].mv = "err"
        /\ handlers[h].newch \in live \cap Tracked
        /\ temp_channels[handlers[h].newch] = ChannelInfo(handlers[h].user, NoTask)
        /\ voice[handlers[h].user] = CreatorId
        /\ \E c \in Tracked : temp_channels[c].owner_id # handlers[h].user

\* The handle stored for channel c is of a countdown that ran to completion
\* with a failed delete request.
StaleHandle(c) ==
    /\ c \in Tracked
    /\ temp_channels[c].delete_task # NoTask
    /\ tasks[temp_channels[c].delete_task].st = "done"
    /\ tasks[temp_channels[c].delete_task].del = "fail"

\* C18: the step in which a countdown's delete request fails leaves the
\* registry unchanged; and when a leave-tracked phase finds a channel empty
\* whose record holds the handle of such a finished countdown, it starts a
\* new countdown for the channel, waiting for its timer, and stores its
\* handle; the finished task is unchanged.
RescheduleAfterFailure ==
    [][/\ \A t \in TaskIds :
            (tasks[t].st = "deleting" /\ tasks'[t].del = "fail") =>
                temp_channels' = temp_channels
       /\ \A h \in Slots :
            LET o == handlers[h].old IN
            (/\ handlers[h].pc = "p2body" /\ handlers'[h] # handlers[h]
             /\ StaleHandle(o)
             /\ Members(o) = {}
             /\ o \in emptied /\ o \in emptied') =>
                /\ Len(tasks') = Len(tasks) + 1
                /\ tasks'[Len(tasks')].ch = o
                /\ tasks'[Len(tasks')].st = "sleeping"
                /\ temp_channels'[o].delete_task = Len(tasks')
                /\ tasks'[temp_channels[o].delete_task] = tasks[temp_channels[o].delete_task]
      ]_vars

RescheduleAfterFailureWitness ==
    \E c \in Tracked : \E t1, t2 \in TasksOf(c) :
        /\ t1 < t2
        /\ tasks[t1].st = "done" /\ tasks[t1].del = "fail"
        /\ tasks[t2].del # "none"

\* C19: a step of an invocation whose new channel is not the creator channel
\* and whose previous and new channels are both untracked changes neither
\* the registry nor its lock nor the tasks nor the channels on the platform
\* nor where the users are.
IrrelevantNoOp ==
    [][\A h \in Slots :
        (/\ ~Free(h) /\ handlers'[h] # handlers[h]
         /\ handlers[h].new # CreatorId
         /\ handlers[h].old \notin Tracked
         /\ handlers[h].new \notin Tracked) =>
            UNCHANGED <<temp_channels, lock, tasks, live, category, made, voice>>
      ]_vars

IrrelevantNoOpWitness ==
    \E h \in Slots :
        /\ handlers[h].pc = "p3"
        /\ handlers[h].old = CreatorId /\ handlers[h].new = NoChannel
        /\ Tracked # {}
        /\ \E t \in TaskIds : tasks[t].st = "sleeping"

\* C20: the registry lock is held only by an invocation inside the body of
\* its leave-tracked phase, which does not wait for the lock; and every
\* invocation and every countdown task eventually ends with the lock free.
DeadlockFreedom ==
    /\ [](\A h \in Slots : lock = h => handlers[h].pc = "p2body")
    /\ <>[](Quiescent /\ lock = 0)

DeadlockFreedomWitness ==
    \E h, g \in Slots :
        /\ lock = h /\ g # h
        /\ handlers[g].pc \in {"has", "get", "rm", "ins", "p3"}
        /\ \E t \in TaskIds : tasks[t].st = "locking"

====
